---- MODULE Spec2Model ----
(***************************************************************************)
(* A model of src/app.py: a Streamlit page over one SQLite table, users.  *)
(*                                                                         *)
(* The store layer is the seven functions init_database, get_connection,   *)
(* insert_user, view_all_users, get_user_by_id, get_user_ids, update_user  *)
(* and delete_user.  The presentation layer is the script body: every user *)
(* interaction re-runs the script from the top, and at most one widget     *)
(* (form submit or button) is the trigger of a run.                        *)
(*                                                                         *)
(* Text values are sequences of one-character strings, so that emptiness,  *)
(* trimming and the test  "@" in email  are computed as the code computes  *)
(* them.                                                                   *)
(***************************************************************************)
EXTENDS Integers, Sequences, FiniteSets, TLC

VARIABLES
    users,      \* the committed rows of table users: id -> row
    seq,        \* sqlite_sequence.seq of users: the largest id ever assigned
    now,        \* CURRENT_TIMESTAMP
    openConns,  \* sqlite3 connections opened and not closed
    op,         \* the operation that produced this state, its inputs and results
    issued,     \* history: every id an INSERT has assigned
    deleted     \* history: every id whose row a DELETE has removed

vars == <<users, seq, now, openConns, op, issued, deleted>>

(***************************************************************************)
(* Bounds of the model: the largest id an INSERT may assign (InsertUser    *)
(* and CreateSubmit are disabled beyond it), the latest timestamp (Tick is *)
(* disabled beyond it), and the most connections that may be open at once  *)
(* (a step that would leave one more unclosed is disabled).                *)
(***************************************************************************)
MaxId == 2
MaxTime == 2
MaxConns == 1

(***************************************************************************)
(* Program constants.                                                      *)
(***************************************************************************)
\* st.number_input("Age", min_value=1, max_value=120, ...)
MinAge == 1
MaxAge == 120
\* SQL NULL in an integer or timestamp column; timestamps are 1, 2, ...
NULL == 0

\* Python's None (a record, so that it can be compared with a row).
None == [none |-> TRUE]

\* SELECT id, name, email, phone, age, date_created: the DataFrame's columns.
Columns == <<"id", "name", "email", "phone", "age", "date_created">>

(***************************************************************************)
(* Input values.                                                           *)
(***************************************************************************)
\* Arguments a caller of the store functions passes; the store functions
\* validate nothing, so an empty name is among them.
StoreInputs ==
    { [name |-> <<"A">>, email |-> <<"a", "@">>, phone |-> <<"5">>, age |-> 30],
      [name |-> <<>>, email |-> <<"c">>, phone |-> <<" ">>, age |-> 41] }

\* What a user can submit in the two forms: a complete submission, one with
\* each text field empty, one whose name and phone are a single space, one
\* whose email is a single space, and one whose email has no "@".
Form(name, email, phone, age) ==
    [name |-> name, email |-> email, phone |-> phone, age |-> age]

FormInputs ==
    { Form(<<"A">>, <<"a", "@">>, <<"5">>, MinAge),
      Form(<<>>, <<"a", "@">>, <<"5">>, MinAge),
      Form(<<"A">>, <<>>, <<"5">>, MinAge),
      Form(<<"A">>, <<"a", "@">>, <<>>, MinAge),
      Form(<<" ">>, <<"@", " ">>, <<" ">>, MaxAge),
      Form(<<"A">>, <<" ">>, <<"5">>, MinAge),
      Form(<<"A">>, <<"a">>, <<"5">>, MinAge) }

\* Where a storage exception is raised inside a store function.
WriteFaults == {"none", "connect", "execute", "commit"}
ReadFaults == {"none", "connect", "execute"}

(***************************************************************************)
(* Helpers on text.                                                        *)
(***************************************************************************)
\* Python truthiness of a str: non-empty.
Truthy(s) == Len(s) > 0

\* c in s
Contains(s, c) == \E k \in 1..Len(s) : s[k] = c

RECURSIVE LStrip(_)
LStrip(s) == IF Len(s) > 0 /\ Head(s) = " " THEN LStrip(Tail(s)) ELSE s

RECURSIVE RStrip(_)
RStrip(s) ==
    IF Len(s) > 0 /\ s[Len(s)] = " " THEN RStrip(SubSeq(s, 1, Len(s) - 1)) ELSE s

\* str.strip(): what "after trimming" means.
Trim(s) == RStrip(LStrip(s))

(***************************************************************************)
(* The table.                                                              *)
(***************************************************************************)
EmptyTable == [i \in {} |-> None]

MaxOf(S) == CHOOSE m \in S : \A x \in S : x <= m

\* ORDER BY id DESC
RECURSIVE OrderByIdDesc(_, _)
OrderByIdDesc(us, S) ==
    IF S = {} THEN <<>>
    ELSE LET m == MaxOf(S) IN <<us[m]>> \o OrderByIdDesc(us, S \ {m})

\* The row INSERT INTO users (name, email, phone, age) creates: the four
\* given columns, id from AUTOINCREMENT, date_created DEFAULT CURRENT_TIMESTAMP.
NewRow(i, f, t) ==
    [id |-> i, name |-> f.name, email |-> f.email, phone |-> f.phone,
     age |-> f.age, date_created |-> t]

\* A table declared without AUTOINCREMENT: the largest rowid present plus one.
NextRowid_NoAutoincrement(us, sq) ==
    IF DOMAIN us = {} THEN 1 ELSE MaxOf(DOMAIN us) + 1

\* id INTEGER PRIMARY KEY AUTOINCREMENT: one more than the largest id the
\* table has ever held (sqlite_sequence), deleted rows included.
NextRowid(us, sq) ==
    LET m == IF DOMAIN us = {} THEN 0 ELSE MaxOf(DOMAIN us)
    IN  (IF sq > m THEN sq ELSE m) + 1

\* get_connection() has returned and the exception is raised after it: the
\* conn.close() of the try body is skipped.
Unclosed(fault) == IF fault \in {"execute", "commit"} THEN 1 ELSE 0

(***************************************************************************)
(* The store functions.  Each returns the table it leaves, its return      *)
(* value, whether it called st.error, whether the exception left the       *)
(* function, the connections it left unclosed and the statement's          *)
(* rowcount.  A statement whose commit fails is rolled back when its       *)
(* connection goes away, so a failed function leaves the table as it was.  *)
(***************************************************************************)
Result(us, sq, ret, reported, raised, unclosed, rowcount) ==
    [users |-> us, seq |-> sq, ret |-> ret, reported |-> reported,
     raised |-> raised, unclosed |-> unclosed, rowcount |-> rowcount]

\* No try/except: an exception of connect, execute or commit leaves the function.
init_database(us, sq, fault) ==
    IF fault = "none"
    THEN Result(us, sq, None, FALSE, FALSE, 0, 0)
    ELSE Result(us, sq, None, FALSE, TRUE, Unclosed(fault), 0)

\* INSERT that stores the phone in the email column and the email in the phone column.
insert_user_Swapped(us, sq, t, f, fault) ==
    IF fault = "none"
    THEN LET i == NextRowid(us, sq)
         IN  Result(us @@ (i :> NewRow(i, [f EXCEPT !.email = f.phone, !.phone = f.email], t)),
                    i, TRUE, FALSE, FALSE, 0, 1)
    ELSE Result(us, sq, FALSE, TRUE, FALSE, Unclosed(fault), 0)

insert_user(us, sq, t, f, fault) ==
    IF fault = "none"
    THEN LET i == NextRowid(us, sq)
         IN  Result(us @@ (i :> NewRow(i, f, t)), i, TRUE, FALSE, FALSE, 0, 1)
    ELSE Result(us, sq, FALSE, TRUE, FALSE, Unclosed(fault), 0)

\* The DataFrame is the sequence of its rows; pd.DataFrame() is <<>>.
view_all_users(us, sq, fault) ==
    IF fault = "none"
    THEN Result(us, sq, OrderByIdDesc(us, DOMAIN us), FALSE, FALSE, 0, 0)
    ELSE Result(us, sq, <<>>, TRUE, FALSE, Unclosed(fault), 0)

get_user_by_id(us, sq, user_id, fault) ==
    IF fault = "none"
    THEN Result(us, sq, IF user_id \in DOMAIN us THEN us[user_id] ELSE None,
                FALSE, FALSE, 0, 0)
    ELSE Result(us, sq, None, TRUE, FALSE, Unclosed(fault), 0)

get_user_ids(us, sq, fault) ==
    IF fault = "none"
    THEN LET rows == OrderByIdDesc(us, DOMAIN us)
         IN  Result(us, sq, [k \in 1..Len(rows) |-> <<rows[k].id, rows[k].name>>],
                    FALSE, FALSE, 0, 0)
    ELSE Result(us, sq, <<>>, TRUE, FALSE, Unclosed(fault), 0)

\* UPDATE that also sets date_created = CURRENT_TIMESTAMP.
update_user_Touch(us, sq, t, user_id, f, fault) ==
    IF fault = "none"
    THEN Result([i \in DOMAIN us |->
                    IF i = user_id
                    THEN [us[i] EXCEPT !.name = f.name, !.email = f.email,
                                       !.phone = f.phone, !.age = f.age,
                                       !.date_created = t]
                    ELSE us[i]],
                sq, TRUE, FALSE, FALSE, 0, Cardinality(DOMAIN us \cap {user_id}))
    ELSE Result(us, sq, FALSE, TRUE, FALSE, Unclosed(fault), 0)

\* INSERT OR REPLACE in place of UPDATE: a missing id creates the row.
update_user_Upsert(us, sq, t, user_id, f, fault) ==
    IF fault = "none"
    THEN Result([i \in DOMAIN us \cup {user_id} |->
                    IF i = user_id
                    THEN NewRow(i, f, IF i \in DOMAIN us THEN us[i].date_created ELSE t)
                    ELSE us[i]],
                IF user_id > sq THEN user_id ELSE sq, TRUE, FALSE, FALSE, 0, 1)
    ELSE Result(us, sq, FALSE, TRUE, FALSE, Unclosed(fault), 0)

\* t, the current time, is not used by the statement.
update_user(us, sq, t, user_id, f, fault) ==
    IF fault = "none"
    THEN Result([i \in DOMAIN us |->
                    IF i = user_id
                    THEN [us[i] EXCEPT !.name = f.name, !.email = f.email,
                                       !.phone = f.phone, !.age = f.age]
                    ELSE us[i]],
                sq, TRUE, FALSE, FALSE, 0, Cardinality(DOMAIN us \cap {user_id}))
    ELSE Result(us, sq, FALSE, TRUE, FALSE, Unclosed(fault), 0)

\* DELETE that also resets sqlite_sequence to the largest id still present.
delete_user_ResetSequence(us, sq, user_id, fault) ==
    IF fault = "none"
    THEN LET keep == DOMAIN us \ {user_id}
         IN  Result([i \in keep |-> us[i]], IF keep = {} THEN 0 ELSE MaxOf(keep),
                    TRUE, FALSE, FALSE, 0, Cardinality(DOMAIN us \cap {user_id}))
    ELSE Result(us, sq, FALSE, TRUE, FALSE, Unclosed(fault), 0)

delete_user(us, sq, user_id, fault) ==
    IF fault = "none"
    THEN Result([i \in DOMAIN us \ {user_id} |-> us[i]], sq, TRUE, FALSE, FALSE, 0,
                Cardinality(DOMAIN us \cap {user_id}))
    ELSE Result(us, sq, FALSE, TRUE, FALSE, Unclosed(fault), 0)

(***************************************************************************)
(* The record of a step.  name is the operation; id and f its arguments;   *)
(* fault the place inside a store function where a storage exception was   *)
(* raised and at the store function that raised it; ret, reported, raised  *)
(* and rowcount the store function's results; wrote the writing store      *)
(* function the step called; report the message the page shows; csv the    *)
(* data handed to st.download_button (<<>>: no download is offered).       *)
(***************************************************************************)
NoFields == [name |-> <<>>, email |-> <<>>, phone |-> <<>>, age |-> NULL]

BaseOp ==
    [name |-> "start", id |-> 0, f |-> NoFields, fault |-> "none", at |-> "none",
     ret |-> None, reported |-> FALSE, raised |-> FALSE, rowcount |-> 0,
     wrote |-> "none", report |-> "none", csv |-> <<>>]

\* The record of a direct call of store function fn with result r.
StoreOp(fn, user_id, f, fault, r, wrote) ==
    [BaseOp EXCEPT !.name = fn, !.id = user_id, !.f = f, !.fault = fault,
                   !.at = IF fault = "none" THEN "none" ELSE fn,
                   !.ret = r.ret, !.reported = r.reported, !.raised = r.raised,
                   !.rowcount = r.rowcount, !.wrote = wrote]

Init ==
    /\ users = EmptyTable
    /\ seq = 0
    /\ now = 1
    /\ openConns = 0
    /\ op = BaseOp
    /\ issued = {}
    /\ deleted = {}

\* The step's effect: the table and sequence the store function leaves; a
\* connection left unclosed stays open until its finalizer runs (Finalize,
\* which may be the very next step); the histories follow the table.
Apply(us, sq, unclosed, o) ==
    /\ openConns + unclosed <= MaxConns
    /\ users' = us
    /\ seq' = sq
    /\ openConns' = openConns + unclosed
    /\ issued' = issued \cup (DOMAIN us \ DOMAIN users)
    /\ deleted' = deleted \cup (DOMAIN users \ DOMAIN us)
    /\ op' = o
    /\ UNCHANGED now

(***************************************************************************)
(* The store functions called directly, with any arguments.                *)
(***************************************************************************)
InitDatabase ==
    \E fault \in WriteFaults :
        \E r \in {init_database(users, seq, fault)} :
            Apply(r.users, r.seq, r.unclosed,
                  StoreOp("init_database", 0, NoFields, fault, r, "none"))

InsertUser ==
    \E f \in StoreInputs, fault \in WriteFaults :
        /\ seq < MaxId
        /\ \E r \in {insert_user(users, seq, now, f, fault)} :
               Apply(r.users, r.seq, r.unclosed,
                     StoreOp("insert_user", 0, f, fault, r, "insert_user"))

ViewAllUsers ==
    \E fault \in ReadFaults :
        \E r \in {view_all_users(users, seq, fault)} :
            Apply(r.users, r.seq, r.unclosed,
                  StoreOp("view_all_users", 0, NoFields, fault, r, "none"))

GetUserById ==
    \E user_id \in 1..MaxId, fault \in ReadFaults :
        \E r \in {get_user_by_id(users, seq, user_id, fault)} :
            Apply(r.users, r.seq, r.unclosed,
                  StoreOp("get_user_by_id", user_id, NoFields, fault, r, "none"))

GetUserIds ==
    \E fault \in ReadFaults :
        \E r \in {get_user_ids(users, seq, fault)} :
            Apply(r.users, r.seq, r.unclosed,
                  StoreOp("get_user_ids", 0, NoFields, fault, r, "none"))

UpdateUser ==
    \E user_id \in 1..MaxId, f \in StoreInputs, fault \in WriteFaults :
        \E r \in {update_user(users, seq, now, user_id, f, fault)} :
            Apply(r.users, r.seq, r.unclosed,
                  StoreOp("update_user", user_id, f, fault, r, "update_user"))

DeleteUser ==
    \E user_id \in 1..MaxId, fault \in WriteFaults :
        \E r \in {delete_user(users, seq, user_id, fault)} :
            Apply(r.users, r.seq, r.unclosed,
                  StoreOp("delete_user", user_id, NoFields, fault, r, "delete_user"))

(***************************************************************************)
(* The environment: time passes; the finalizer of a connection that was    *)
(* left unclosed closes it.                                                *)
(***************************************************************************)
Tick ==
    /\ now < MaxTime
    /\ now' = now + 1
    /\ op' = [BaseOp EXCEPT !.name = "tick"]
    /\ UNCHANGED <<users, seq, openConns, issued, deleted>>

Finalize ==
    /\ openConns > 0
    /\ openConns' = openConns - 1
    /\ op' = [BaseOp EXCEPT !.name = "finalize"]
    /\ UNCHANGED <<users, seq, now, issued, deleted>>

Next ==
    \/ InitDatabase
    \/ InsertUser
    \/ ViewAllUsers
    \/ GetUserById
    \/ GetUserIds
    \/ UpdateUser
    \/ DeleteUser
    \/ Tick
    \/ Finalize

Spec == Init /\ [][Next]_vars

(***************************************************************************)
(* The page.  A script run starts with init_database() and then executes   *)
(* the tab of the widget that triggered it.  A run is modelled with the    *)
(* store calls its outcome depends on; the calls that only draw the other  *)
(* tabs and the record count read the table and change nothing.            *)
(*                                                                         *)
(* A fault names the store function of the run in which a storage          *)
(* exception is raised, and the place inside it.                           *)
(***************************************************************************)
NoFault == [at |-> "none", kind |-> "none"]

\* In a script run one place per store function is considered: the
\* statement of a reading function, the commit of a writing one.
FaultsAt(calls) ==
    {NoFault} \cup
    { [at |-> c,
       kind |-> IF c \in {"insert_user", "update_user", "delete_user"}
                THEN "commit" ELSE "execute"] : c \in calls }

FaultIn(fault, call) == IF fault.at = call THEN fault.kind ELSE "none"

\* No store function was called.
NoCall(us, sq) == Result(us, sq, None, FALSE, FALSE, 0, 0)

UiOut(us, sq, unclosed, o) ==
    [users |-> us, seq |-> sq, unclosed |-> unclosed, op |-> o]

\* The record of a script run whose last store call had result r.
UiOp(name, user_id, f, fault, r, wrote, report, csv) ==
    LET hit == r.reported \/ r.raised
    IN  [BaseOp EXCEPT !.name = name, !.id = user_id, !.f = f,
                       !.fault = IF hit THEN fault.kind ELSE "none",
                       !.at = IF hit THEN fault.at ELSE "none",
                       !.ret = r.ret, !.reported = r.reported, !.raised = r.raised,
                       !.rowcount = r.rowcount, !.wrote = wrote,
                       !.report = report, !.csv = csv]

\* A check that forgets the "@" test.
update_user_form_check_NoAt(f) ==
    IF ~Truthy(f.name) \/ ~Truthy(f.email) \/ ~Truthy(f.phone) THEN "fill" ELSE "ok"

\* if not name or not email or not phone: ... elif "@" not in email: ... else:
add_user_form_check(f) ==
    IF ~Truthy(f.name) \/ ~Truthy(f.email) \/ ~Truthy(f.phone) THEN "fill"
    ELSE IF ~Contains(f.email, "@") THEN "email"
    ELSE "ok"

\* if not updated_name or not updated_email or not updated_phone: ...
\* elif "@" not in updated_email: ... else:
update_user_form_check(f) ==
    IF ~Truthy(f.name) \/ ~Truthy(f.email) \/ ~Truthy(f.phone) THEN "fill"
    ELSE IF ~Contains(f.email, "@") THEN "email"
    ELSE "ok"

\* The position in the list taken for the id.
SelectedUserId_Position(user_list, k) == k

\* selected_option = st.selectbox(options=user_list): the k-th option;
\* selected_user_id = selected_option[0] (Python counts from 0).
SelectedUserId(user_list, k) == user_list[k][1]

\* to_csv(index=False, header=False)
to_csv_NoHeader(df) ==
    [k \in 1..Len(df) |-> [j \in 1..Len(Columns) |-> df[k][Columns[j]]]]

\* df.to_csv(index=False): the line of column names, then one line per row
\* with the row's values in the order of the columns.
to_csv(df) ==
    <<Columns>> \o [k \in 1..Len(df) |-> [j \in 1..Len(Columns) |-> df[k][Columns[j]]]]

\* "Add User" is submitted with the form's values f.
add_user_form(us, sq, t, f, fault) ==
    LET i0 == init_database(us, sq, FaultIn(fault, "init_database"))
        v == add_user_form_check(f)
        r == insert_user(us, sq, t, f, FaultIn(fault, "insert_user"))
    IN  IF i0.raised
        THEN UiOut(us, sq, i0.unclosed,
                   UiOp("create", 0, f, fault, i0, "none", "exception", <<>>))
        ELSE IF v # "ok"
        THEN UiOut(us, sq, 0,
                   UiOp("create", 0, f, fault, NoCall(us, sq), "none", v, <<>>))
        ELSE UiOut(r.users, r.seq, r.unclosed,
                   UiOp("create", 0, f, fault, r, "insert_user",
                        IF r.ret THEN "success" ELSE "failed", <<>>))

\* "Save Changes" is submitted with the k-th user selected and the form's values f.
update_user_form(us, sq, t, k, f, fault) ==
    LET i0 == init_database(us, sq, FaultIn(fault, "init_database"))
        l == get_user_ids(us, sq, FaultIn(fault, "get_user_ids"))
        user_list == l.ret
        selected_user_id == SelectedUserId(user_list, k)
        g == get_user_by_id(us, sq, selected_user_id, FaultIn(fault, "get_user_by_id"))
        v == update_user_form_check(f)
        r == update_user(us, sq, t, selected_user_id, f, FaultIn(fault, "update_user"))
    IN  IF i0.raised
        THEN UiOut(us, sq, i0.unclosed,
                   UiOp("update", 0, f, fault, i0, "none", "exception", <<>>))
        ELSE IF Len(user_list) = 0
        THEN UiOut(us, sq, l.unclosed,
                   UiOp("update", 0, f, fault, l, "none", "no users", <<>>))
        ELSE IF g.ret = None
        THEN UiOut(us, sq, g.unclosed,
                   UiOp("update", selected_user_id, f, fault, g, "none", "no form", <<>>))
        ELSE IF v # "ok"
        THEN UiOut(us, sq, 0,
                   UiOp("update", selected_user_id, f, fault, NoCall(us, sq), "none", v, <<>>))
        ELSE UiOut(r.users, r.seq, r.unclosed,
                   UiOp("update", selected_user_id, f, fault, r, "update_user",
                        IF r.ret THEN "success" ELSE "failed", <<>>))

\* "Delete User" is clicked with the k-th user selected.
delete_user_button(us, sq, k, fault) ==
    LET i0 == init_database(us, sq, FaultIn(fault, "init_database"))
        l == get_user_ids(us, sq, FaultIn(fault, "get_user_ids"))
        user_list == l.ret
        selected_user_id == SelectedUserId(user_list, k)
        r == delete_user(us, sq, selected_user_id, FaultIn(fault, "delete_user"))
    IN  IF i0.raised
        THEN UiOut(us, sq, i0.unclosed,
                   UiOp("delete", 0, NoFields, fault, i0, "none", "exception", <<>>))
        ELSE IF Len(user_list) = 0
        THEN UiOut(us, sq, l.unclosed,
                   UiOp("delete", 0, NoFields, fault, l, "none", "no users", <<>>))
        ELSE UiOut(r.users, r.seq, r.unclosed,
                   UiOp("delete", selected_user_id, NoFields, fault, r, "delete_user",
                        IF r.ret THEN "success" ELSE "failed", <<>>))

\* "Export to CSV" is clicked.
export_button(us, sq, fault) ==
    LET i0 == init_database(us, sq, FaultIn(fault, "init_database"))
        v == view_all_users(us, sq, FaultIn(fault, "view_all_users"))
        df == v.ret
    IN  IF i0.raised
        THEN UiOut(us, sq, i0.unclosed,
                   UiOp("export", 0, NoFields, fault, i0, "none", "exception", <<>>))
        ELSE IF Len(df) > 0
        THEN UiOut(us, sq, v.unclosed,
                   UiOp("export", 0, NoFields, fault, v, "none", "download", to_csv(df)))
        ELSE UiOut(us, sq, v.unclosed,
                   UiOp("export", 0, NoFields, fault, v, "none", "no data", <<>>))

\* "Refresh Data" is clicked: the Read tab shows the table.
refresh_button(us, sq, fault) ==
    LET i0 == init_database(us, sq, FaultIn(fault, "init_database"))
        v == view_all_users(us, sq, FaultIn(fault, "view_all_users"))
    IN  IF i0.raised
        THEN UiOut(us, sq, i0.unclosed,
                   UiOp("read", 0, NoFields, fault, i0, "none", "exception", <<>>))
        ELSE UiOut(us, sq, v.unclosed,
                   UiOp("read", 0, NoFields, fault, v, "none",
                        IF Len(v.ret) = 0 THEN "no users" ELSE "table", <<>>))

\* The options the selectbox of a run offers: positions in get_user_ids()'s
\* list (position 1 stands for "nothing to select" when the list is empty).
Selectable(fault) ==
    LET n == Len(get_user_ids(users, seq, FaultIn(fault, "get_user_ids")).ret)
    IN  1..(IF n = 0 THEN 1 ELSE n)

CreateSubmit ==
    \E f \in FormInputs, fault \in FaultsAt({"init_database", "insert_user"}) :
        /\ seq < MaxId
        /\ \E o \in {add_user_form(users, seq, now, f, fault)} :
               Apply(o.users, o.seq, o.unclosed, o.op)

UpdateSubmit ==
    \E f \in FormInputs,
       fault \in FaultsAt({"init_database", "get_user_ids", "get_user_by_id", "update_user"}) :
        \E k \in Selectable(fault) :
            \E o \in {update_user_form(users, seq, now, k, f, fault)} :
                Apply(o.users, o.seq, o.unclosed, o.op)

DeleteClick ==
    \E fault \in FaultsAt({"init_database", "get_user_ids", "delete_user"}) :
        \E k \in Selectable(fault) :
            \E o \in {delete_user_button(users, seq, k, fault)} :
                Apply(o.users, o.seq, o.unclosed, o.op)

ExportClick ==
    \E fault \in FaultsAt({"init_database", "view_all_users"}) :
        \E o \in {export_button(users, seq, fault)} :
            Apply(o.users, o.seq, o.unclosed, o.op)

RefreshClick ==
    \E fault \in FaultsAt({"init_database", "view_all_users"}) :
        \E o \in {refresh_button(users, seq, fault)} :
            Apply(o.users, o.seq, o.unclosed, o.op)

NextUI ==
    \/ CreateSubmit
    \/ UpdateSubmit
    \/ DeleteClick
    \/ ExportClick
    \/ RefreshClick
    \/ Tick
    \/ Finalize

SpecUI == Init /\ [][NextUI]_vars

(***************************************************************************)
(* Properties.                                                             *)
(***************************************************************************)
\* The reads of the table a step leaves, without a storage exception.
ListAll(us) == view_all_users(us, 0, "none").ret
ListIDAndName(us) == get_user_ids(us, 0, "none").ret
GetByID(us, i) == get_user_by_id(us, 0, i, "none").ret

\* How sqlite3 binds the value insert_user returns (return True) when it is
\* passed on as an id: a Python bool is an int, True is 1.
BoolAsInt(b) == IF b THEN 1 ELSE 0

InsertOk(o) == o.name = "insert_user" /\ o.ret = TRUE

\* C1: a successful Insert creates exactly one row; its id is greater than
\* every id any earlier Insert assigned (also those of rows deleted since),
\* its date_created is not NULL, and it is the first row of ListAll.
C1_InsertFreshId ==
    [][InsertOk(op') =>
        \E i \in DOMAIN users' \ DOMAIN users :
            /\ DOMAIN users' = DOMAIN users \cup {i}
            /\ \A j \in issued : i > j
            /\ users'[i].id = i
            /\ users'[i].date_created # NULL
            /\ Head(ListAll(users')) = users'[i]]_vars

C1_Witness ==
    /\ InsertOk(op)
    /\ deleted # {}
    /\ Len(ListAll(users)) >= 1
    /\ \E j \in deleted : Head(ListAll(users)).id > j

\* C2, as stated: a successful Insert returns the new row's id, and GetByID
\* on the returned value is the new row with the four inserted values.
C2_InsertReturnsId ==
    [][InsertOk(op') =>
        LET g == GetByID(users', BoolAsInt(op'.ret))
        IN  /\ g # None
            /\ g.id \in DOMAIN users' \ DOMAIN users
            /\ g.name = op'.f.name /\ g.email = op'.f.email
            /\ g.phone = op'.f.phone /\ g.age = op'.f.age]_vars

\* C2, amended: a successful Insert returns the flag True and no id; the new
\* row is the first row of ListAll, and GetByID on that row's id is a row
\* with the four inserted values.
C2_RoundTrip ==
    [][InsertOk(op') =>
        LET new == Head(ListAll(users'))
            g == GetByID(users', new.id)
        IN  /\ op'.ret \in BOOLEAN
            /\ new.id \notin DOMAIN users
            /\ g # None
            /\ g.name = op'.f.name /\ g.email = op'.f.email
            /\ g.phone = op'.f.phone /\ g.age = op'.f.age]_vars

C2_Witness ==
    /\ InsertOk(op)
    /\ Head(ListAll(users)).id # BoolAsInt(op.ret)
    /\ GetByID(users, Head(ListAll(users)).id).name = op.f.name

\* C3: a successful Update of an existing row sets its name, email, phone
\* and age to the given values and leaves its id, its date_created, every
\* other row and the set of ids as they were.
C3_UpdateFrame ==
    [][(op'.name = "update_user" /\ op'.ret = TRUE /\ op'.id \in DOMAIN users) =>
        /\ DOMAIN users' = DOMAIN users
        /\ \A j \in DOMAIN users \ {op'.id} : users'[j] = users[j]
        /\ users'[op'.id].id = users[op'.id].id
        /\ users'[op'.id].date_created = users[op'.id].date_created
        /\ users'[op'.id].name = op'.f.name
        /\ users'[op'.id].email = op'.f.email
        /\ users'[op'.id].phone = op'.f.phone
        /\ users'[op'.id].age = op'.f.age]_vars

C3_Witness ==
    /\ op.name = "update_user" /\ op.ret = TRUE
    /\ op.id \in DOMAIN users
    /\ Cardinality(DOMAIN users) >= 2
    /\ users[op.id].name = op.f.name
    /\ users[op.id].date_created < now

\* C4: the id of a deleted row is in neither ListAll nor ListIDAndName and
\* GetByID on it is None, after the Delete and after every later step; a
\* successful Delete of an existing row leaves every other row as it was.
C4_DeletedStaysAbsent ==
    [][/\ \A i \in deleted' :
            /\ \A k \in 1..Len(ListAll(users')) : ListAll(users')[k].id # i
            /\ \A k \in 1..Len(ListIDAndName(users')) : ListIDAndName(users')[k][1] # i
            /\ GetByID(users', i) = None
       /\ (op'.name = "delete_user" /\ op'.ret = TRUE /\ op'.id \in DOMAIN users) =>
            /\ op'.id \in deleted'
            /\ DOMAIN users' = DOMAIN users \ {op'.id}
            /\ \A j \in DOMAIN users' : users'[j] = users[j]]_vars

C4_Witness ==
    /\ InsertOk(op)
    /\ \E i \in deleted : i \notin DOMAIN users /\ seq > i
    /\ Cardinality(deleted) >= 1
    /\ Cardinality(DOMAIN users) >= 1
    /\ GetByID(users, MaxOf(deleted)) = None

\* A step in which a form was submitted and its values were checked.
Submitted(o) ==
    /\ o.name \in {"create", "update"}
    /\ o.report \in {"fill", "email", "success", "failed"}

\* C5, as stated: a submission whose name, email or phone is empty after
\* trimming, or whose email has no "@", calls no writing store function and
\* leaves the table as it was.
C5_TrimmedValidation ==
    [][(/\ Submitted(op')
        /\ \/ Trim(op'.f.name) = <<>>
           \/ Trim(op'.f.email) = <<>>
           \/ Trim(op'.f.phone) = <<>>
           \/ ~Contains(op'.f.email, "@")) =>
        (op'.wrote = "none" /\ users' = users)]_vars

\* C5, amended: a submission whose name, email or phone is the empty string
\* (nothing is trimmed), or whose email has no "@", is a validation failure
\* of Create and of Update alike: no writing store function is called and
\* the table is as it was.
C5_EmptyValidation ==
    [][(/\ Submitted(op')
        /\ \/ op'.f.name = <<>>
           \/ op'.f.email = <<>>
           \/ op'.f.phone = <<>>
           \/ ~Contains(op'.f.email, "@")) =>
        /\ op'.report \in {"fill", "email"}
        /\ op'.wrote = "none"
        /\ users' = users /\ seq' = seq]_vars

C5_Witness ==
    /\ op.name = "update"
    /\ op.report = "email"
    /\ op.f.name # <<>> /\ op.f.phone # <<>>
    /\ op.id \in DOMAIN users

\* C6: Update and Delete of an id that matches no row, with no storage
\* exception, return True and leave the rows and the next id as they were.
C6_MissingIdNoOp ==
    [][(/\ op'.name \in {"update_user", "delete_user"}
        /\ op'.fault = "none"
        /\ op'.id \notin DOMAIN users) =>
        /\ op'.ret = TRUE
        /\ users' = users
        /\ seq' = seq
        /\ NextRowid(users', seq') = NextRowid(users, seq)]_vars

C6_Witness ==
    /\ op.name = "update_user"
    /\ op.fault = "none"
    /\ op.ret = TRUE
    /\ op.rowcount = 0
    /\ DOMAIN users # {}
    /\ op.id \notin DOMAIN users

\* The value a store function returns for a failure.
FailureValue(o) ==
    CASE o.name \in {"insert_user", "update_user", "delete_user"} -> o.ret = FALSE
      [] o.name \in {"view_all_users", "get_user_ids"} -> o.ret = <<>>
      [] o.name = "get_user_by_id" -> o.ret = None
      [] OTHER -> TRUE

\* C7: a storage exception in any store function, init_database included,
\* does not leave the function: the function reports it, returns its
\* failure value and leaves the table as it was.
C7_ExceptionsCaught ==
    [][op'.fault # "none" =>
        /\ ~op'.raised
        /\ op'.reported
        /\ FailureValue(op')
        /\ users' = users]_vars

\* C8: a store function returns with as many connections open as when it
\* was called.
C8_ConnectionsReleased ==
    [][op'.name \notin {"tick", "finalize"} => openConns' = openConns]_vars

\* C9, as stated: Export of a table of N rows, N >= 0, gives a CSV of the
\* header line and N data lines.
C9_ExportAlways ==
    (op.name = "export" /\ op.fault = "none") =>
        /\ Len(op.csv) = Cardinality(DOMAIN users) + 1
        /\ op.csv[1] = <<"id", "name", "email", "phone", "age", "date_created">>

\* C9, amended: Export of a table of N >= 1 rows that is read without a
\* storage exception gives the header line id,name,email,phone,age,
\* date_created and N data lines, one per row; Export of an empty table
\* gives no CSV.
C9_ExportNonEmpty ==
    (op.name = "export" /\ op.fault = "none") =>
        IF DOMAIN users = {}
        THEN op.csv = <<>> /\ op.report = "no data"
        ELSE /\ Len(op.csv) = Cardinality(DOMAIN users) + 1
             /\ op.csv[1] = <<"id", "name", "email", "phone", "age", "date_created">>
             /\ {op.csv[k][1] : k \in 2..Len(op.csv)} = DOMAIN users
             /\ \A k \in 2..Len(op.csv) :
                    LET u == users[op.csv[k][1]]
                    IN  op.csv[k] = <<u.id, u.name, u.email, u.phone, u.age, u.date_created>>

C9_Witness ==
    /\ op.name = "export"
    /\ op.fault = "none"
    /\ Len(op.csv) >= 3
    /\ Cardinality(DOMAIN users) >= 2

\* C10: when the page calls update_user or delete_user, the id it passes is
\* the id of a row of the table; a reported success is one row matched, the
\* row updated or removed.
C10_PageIdsExist ==
    [][(op'.name \in {"update", "delete"} /\ op'.wrote # "none") =>
        /\ op'.id \in DOMAIN users
        /\ op'.report = "success" =>
            /\ op'.rowcount = 1
            /\ op'.name = "delete" => DOMAIN users' = DOMAIN users \ {op'.id}
            /\ op'.name = "update" =>
                /\ DOMAIN users' = DOMAIN users
                /\ users'[op'.id].name = op'.f.name
                /\ users'[op'.id].email = op'.f.email
                /\ users'[op'.id].phone = op'.f.phone
                /\ users'[op'.id].age = op'.f.age]_vars

C10_Witness ==
    /\ op.name = "delete"
    /\ op.report = "success"
    /\ op.rowcount = 1
    /\ deleted # {}
    /\ DOMAIN users # {}
    /\ op.id \notin DOMAIN users

====
